---- MODULE Spec2Model ----
(***************************************************************************)
(* Model of the template population engine of update_logic.py: the         *)
(* configuration registry, the five row synthesizers (generic, Service     *)
(* Plan, Service Offering, Parts Pricing, Labor Pricing) and the Temp ID   *)
(* backfill, acting on one template sheet and one uploaded source batch;   *)
(* the validation engine (validate_template_logic) with the                *)
(* 'Validation_Summary' sheet it writes into the same file;                *)
(* update_template_with_picklist; and the mapping updaters and validators  *)
(* of the mapping tab, acting on a source file and a mapping file.         *)
(*                                                                         *)
(* Spec runs the synthesizers on enumerated batches, ValidationSpec runs   *)
(* validation between synthesizer calls on chosen files, PicklistSpec      *)
(* applies picklist values, MappingSpec runs the mapping operations.       *)
(* consolidated_issues is kept as the set of its entries: the names are    *)
(* scanned in the order of a Python set.                                   *)
(*                                                                         *)
(* Cell values are records [t, s, n]: t is the Python type of the cell     *)
(* ("nan", "str", "int", "bool"), s the characters of a string, n the     *)
(* integer (1 and 0 for True and False).                                   *)
(* Strings are sequences of one-character strings so that strip(), lower() *)
(* and substring tests are computed, not assumed.                          *)
(***************************************************************************)
EXTENDS Integers, Sequences, FiniteSets, TLC

\* ---------------------------------------------------------------- bounds
\* Largest number of rows of the uploaded source batch.
MaxRows == 2

\* ---------------------------------------------------------------- values
NaN == [t |-> "nan", s |-> <<>>, n |-> 0]
StrVal(chars) == [t |-> "str", s |-> chars, n |-> 0]
IntVal(k) == [t |-> "int", s |-> <<>>, n |-> k]
BoolVal(b) == [t |-> "bool", s |-> <<>>, n |-> IF b THEN 1 ELSE 0]

\* pd.isna(val)
IsNa(v) == v.t = "nan"

UpperLetters == <<"A", "B", "C", "D", "E", "F", "G", "H", "I", "J", "K", "L", "M", "N", "O", "P", "Q", "R", "S", "T", "U", "V", "W", "X", "Y", "Z">>
LowerLetters == <<"a", "b", "c", "d", "e", "f", "g", "h", "i", "j", "k", "l", "m", "n", "o", "p", "q", "r", "s", "t", "u", "v", "w", "x", "y", "z">>
DigitChars == <<"0", "1", "2", "3", "4", "5", "6", "7", "8", "9">>
Whitespace == {" ", "\t", "\n", "\r"}

\* str.lower(), one character
LowerChar(c) ==
    IF \E i \in 1..26 : UpperLetters[i] = c
    THEN LowerLetters[CHOOSE i \in 1..26 : UpperLetters[i] = c]
    ELSE c

\* str.upper(), one character
UpperChar(c) ==
    IF \E i \in 1..26 : LowerLetters[i] = c
    THEN UpperLetters[CHOOSE i \in 1..26 : LowerLetters[i] = c]
    ELSE c

\* str.upper()
Upper(s) == [i \in 1..Len(s) |-> UpperChar(s[i])]

\* str.lower()
Lower(s) == [i \in 1..Len(s) |-> LowerChar(s[i])]

RECURSIVE LStrip(_)
LStrip(s) == IF s # <<>> /\ Head(s) \in Whitespace THEN LStrip(Tail(s)) ELSE s

RECURSIVE RStrip(_)
RStrip(s) ==
    IF s # <<>> /\ s[Len(s)] \in Whitespace
    THEN RStrip(SubSeq(s, 1, Len(s) - 1))
    ELSE s

\* str.strip()
Strip(s) == RStrip(LStrip(s))

\* sub in s
Contains(sub, s) ==
    \E i \in 0..(Len(s) - Len(sub)) : SubSeq(s, i + 1, i + Len(sub)) = sub

RECURSIVE Digits(_)
Digits(k) ==
    IF k < 10 THEN <<DigitChars[k + 1]>>
    ELSE Digits(k \div 10) \o <<DigitChars[(k % 10) + 1]>>

\* str(val) / Series.astype(str), per cell
AsStr(v) ==
    CASE v.t = "str" -> v.s
      [] v.t = "int" -> IF v.n < 0 THEN <<"-">> \o Digits(0 - v.n) ELSE Digits(v.n)
      [] v.t = "bool" -> IF v.n = 1 THEN <<"T", "r", "u", "e">>
                         ELSE <<"F", "a", "l", "s", "e">>
      [] OTHER -> <<"n", "a", "n">>

\* normalize_value(val)
normalize_value(val) ==
    IF IsNa(val) THEN val
    ELSE IF val.t = "bool" THEN StrVal(Upper(AsStr(val)))
    ELSE StrVal(Upper(Strip(AsStr(val))))

\* is_blank(val)
is_blank(val) == IsNa(val) \/ (val.t = "str" /\ Strip(val.s) = <<>>)

\* ------------------------------------------------------- string literals
S_TRUE == <<"T", "R", "U", "E">>
S_FALSE == <<"F", "A", "L", "S", "E">>
S_Draft == <<"D", "r", "a", "f", "t">>
S_ServiceContract == <<"S", "e", "r", "v", "i", "c", "e", " ", "C", "o", "n", "t", "r", "a", "c", "t">>
S_BATCH == <<"B", "A", "T", "C", "H">>
S_HCS == <<"H", "C", "S">>
S_StraightLine == <<"S", "t", "r", "a", "i", "g", "h", "t", " ", "L", "i", "n", "e">>
S_Actuals == <<"A", "c", "t", "u", "a", "l", "s">>
S_NonBillable == <<"N", "o", "n", "-", "B", "i", "l", "l", "a", "b", "l", "e">>
S_WorkOrderTypes == <<"F", "i", "e", "l", "d", " ", "S", "e", "r", "v", "i", "c", "e", ";", " ", "R", "e", "m", "o", "t", "e", " ", "S", "e", "r", "v", "i", "c", "e", ";", " ", "V", "e", "n", "d", "o", "r", ";", " ", "D", "e", "p", "o", "t", " ", "R", "e", "p", "a", "i", "r", ";", " ", "S", "e", "r", "v", "i", "c", "e", " ", "T", "a", "s", "k">>
S_Warranty == <<"W", "a", "r", "r", "a", "n", "t", "y">>
S_Customer == <<"C", "u", "s", "t", "o", "m", "e", "r">>
S_12 == <<"1", "2">>
S_eOMWarrantyStartDate == <<"e", "O", "M", " ", "W", "a", "r", "r", "a", "n", "t", "y", " ", "S", "t", "a", "r", "t", " ", "D", "a", "t", "e">>
S_warranty == <<"w", "a", "r", "r", "a", "n", "t", "y">>
S_yes == <<"y", "e", "s">>
S_Labor == <<"L", "a", "b", "o", "r">>
S_Travel == <<"T", "r", "a", "v", "e", "l">>

\* ------------------------------------------------ configuration registry
NoMapping == [c \in {} |-> ""]
NoDefaults == [c \in {} |-> NaN]

TEMPLATE_CONFIGS ==
    [t \in {"Service Contract DLT", "Covered Product_Service Contract",
            "Warranty Service Contract", "Warranty Covered Product_Service Contract",
            "Service Plan", "Service Offering", "Parts Pricing", "Labor Pricing"} |->
      CASE t = "Service Contract DLT" ->
             [column_mapping |->
                [c \in {"Agreement_ID__c", "SVMXC__Company__c"} |->
                   IF c = "Agreement_ID__c" THEN "Temp ID" ELSE "UCM__Id__c"],
              default_values |->
                [c \in {"SVMXC__Active__c", "HCS_Status__c", "HCS_Related_To__c"} |->
                   CASE c = "SVMXC__Active__c" -> StrVal(S_TRUE)
                     [] c = "HCS_Status__c" -> StrVal(S_Draft)
                     [] OTHER -> StrVal(S_ServiceContract)]]
        [] t = "Covered Product_Service Contract" ->
             [column_mapping |-> [c \in {"SVMXC__Installed_Product__c"} |-> "Asset#"],
              default_values |-> [c \in {"PM_Creation_Status__c"} |-> StrVal(S_BATCH)]]
        [] t = "Warranty Service Contract" ->
             [column_mapping |-> [c \in {"Agreement_ID__c"} |-> "Temp ID"],
              default_values |->
                [c \in {"SVMXC__Active__c", "HCS_Status__c", "HCS_Related_To__c"} |->
                   CASE c = "SVMXC__Active__c" -> StrVal(S_TRUE)
                     [] c = "HCS_Status__c" -> StrVal(S_Draft)
                     [] OTHER -> StrVal(S_ServiceContract)]]
        [] t = "Warranty Covered Product_Service Contract" ->
             [column_mapping |-> [c \in {"SVMXC__Installed_Product__c"} |-> "Asset#"],
              default_values |-> [c \in {"PM_Creation_Status__c"} |-> StrVal(S_BATCH)]]
        [] t = "Service Plan" ->
             [default_values |->
                [c \in {"SVMXC__Active__c", "Business_Unit__c", "HCS_Related_To__c",
                        "GS_Rev_Rec_Method__c", "Extend_to_End_of_Month__c",
                        "SVMXC__Labor_Rounding_Type__c", "SVMXC__Travel_Rounding_Type__c"} |->
                   CASE c = "SVMXC__Active__c" -> StrVal(S_TRUE)
                     [] c = "Business_Unit__c" -> StrVal(S_HCS)
                     [] c = "HCS_Related_To__c" -> StrVal(S_ServiceContract)
                     [] c = "GS_Rev_Rec_Method__c" -> StrVal(S_StraightLine)
                     [] c = "Extend_to_End_of_Month__c" -> StrVal(S_FALSE)
                     [] OTHER -> StrVal(S_Actuals)]]
        [] t = "Service Offering" ->
             [column_mapping |-> [c \in {"SVMXC__Service_Plan__c"} |-> "Temp ID"],
              default_values |->
                [c \in {"Billing_Type__c", "Business_Unit__c", "Work_Order_Type__c"} |->
                   CASE c = "Billing_Type__c" -> StrVal(S_NonBillable)
                     [] c = "Business_Unit__c" -> StrVal(S_HCS)
                     [] OTHER -> StrVal(S_WorkOrderTypes)]]
        [] t = "Parts Pricing" ->
             [column_mapping |->
                [c \in {"Pricing_Type__c", "Service_Offering__c", "Unit_Type__c"} |->
                   CASE c = "Pricing_Type__c" -> "Coverage_Type__c"
                     [] c = "Service_Offering__c" -> "SVMXC__Available_Services__c (Name)"
                     [] OTHER -> "GEHCS_Unit_Type__c"],
              default_values |-> [c \in {"Display_Entitlement__c"} |-> StrVal(S_TRUE)]]
        [] OTHER ->
             [column_mapping |->
                [c \in {"Service_Offering__c", "Unit_Type__c"} |->
                   IF c = "Service_Offering__c" THEN "SVMXC__Available_Services__c (Name)"
                   ELSE "GEHCS_Unit_Type__c"],
              default_values |-> NoDefaults]]

\* TEMPLATE_CONFIGS.get(template_type, {}).get("column_mapping", {})
ColumnMappingOf(template_type) ==
    IF template_type \in DOMAIN TEMPLATE_CONFIGS
       /\ "column_mapping" \in DOMAIN TEMPLATE_CONFIGS[template_type]
    THEN TEMPLATE_CONFIGS[template_type].column_mapping
    ELSE NoMapping

\* TEMPLATE_CONFIGS.get(template_type, {}).get("default_values", {})
DefaultValuesOf(template_type) ==
    IF template_type \in DOMAIN TEMPLATE_CONFIGS
       /\ "default_values" \in DOMAIN TEMPLATE_CONFIGS[template_type]
    THEN TEMPLATE_CONFIGS[template_type].default_values
    ELSE NoDefaults

\* ------------------------------------------------------------ data frames
\* A data frame is [columns, rows]: rows is the sequence of records in index
\* order, each a function from the column names to cell values.  Position i
\* of a frame with the default RangeIndex carries the label i - 1.
NoReference == [none |-> TRUE, columns |-> {}, rows |-> <<>>]

S_PlanA == <<"P", "l", "a", "n", " ", "A">>
S_WarrantyPlan == <<"W", "a", "r", "r", "a", "n", "t", "y", " ", "P", "l", "a", "n">>
S_Yes == <<"Y", "e", "s">>
S_no == <<"n", "o">>
S_U1 == <<"U", "1">>
S_A7 == <<"A", "7">>
S_2024 == <<"2", "0", "2", "4">>
S_Billable == <<"B", "i", "l", "l", "a", "b", "l", "e">>

NameCells == {StrVal(S_PlanA), StrVal(S_WarrantyPlan)}

\* The uploaded source files: each schema gives the columns of a file and the
\* cell values its rows may hold.
SourceSchemas ==
    { [c \in {"Temp ID", "Name", "SVMXC__Active__c"} |->
         CASE c = "Temp ID" -> {StrVal(<<" ">>), IntVal(5001)}
           [] c = "Name" -> NameCells
           [] OTHER -> {StrVal(S_FALSE)}],
      [c \in {"Name", "UCM__Id__c", "Billing_Type__c"} |->
         CASE c = "Name" -> NameCells \cup {NaN}
           [] c = "UCM__Id__c" -> {StrVal(S_U1)}
           [] OTHER -> {StrVal(S_Billable)}],
      [c \in {"Temp ID", "Need parts pricing", "Need labor pricing"} |->
         CASE c = "Temp ID" -> {NaN, IntVal(5001)}
           [] c = "Need parts pricing" -> {StrVal(S_Yes), NaN}
           [] OTHER -> {StrVal(S_Yes)}],
      [c \in {"Name", "Need parts pricing"} |->
         IF c = "Name" THEN NameCells ELSE {StrVal(S_Yes), StrVal(S_no)}],
      [c \in {"Name", "Need labor pricing"} |->
         IF c = "Name" THEN NameCells ELSE {StrVal(S_Yes), StrVal(S_no)}],
      [c \in {"SVMXC__Active__c"} |-> {StrVal(S_FALSE)}] }

SourceRows(schema) ==
    {row \in [DOMAIN schema -> UNION {schema[c] : c \in DOMAIN schema}] :
        \A c \in DOMAIN schema : row[c] \in schema[c]}

SourceFrames ==
    UNION { { [columns |-> DOMAIN schema, rows |-> r] :
                r \in UNION { [1..k -> SourceRows(schema)] : k \in 0..MaxRows } } :
            schema \in SourceSchemas }

\* Reference frames a caller may pass: none, or one row of reference data.
ReferenceFrames ==
    { NoReference,
      [none |-> FALSE,
       columns |-> {"UCM__Id__c", "SVMXC__Start_Date__c", "Temp ID"},
       rows |-> << [c \in {"UCM__Id__c", "SVMXC__Start_Date__c", "Temp ID"} |->
                      CASE c = "UCM__Id__c" -> StrVal(S_U1)
                        [] c = "SVMXC__Start_Date__c" -> StrVal(S_2024)
                        [] OTHER -> StrVal(S_A7)] >>] }

\* Header row of the template sheet (row 2 of the sheet).
FullHeaders ==
    << "Temp ID", "Name", "SVMXC__Active__c", "HCS_Related_To__c",
       "GS_Rev_Rec_Method__c", "Account_Type__c", "Duration_months__c",
       "Start_Date__c", "Agreement_ID__c", "SVMXC__Company__c",
       "SVMXC__Start_Date__c", "Labor_Type__c", "Display_Entitlement__c",
       "Billing_Type__c", "SVMXC__Service_Plan__c", "SVMXC__End_Date__c",
       "HCS_Status__c" >>

Range(seq) == {seq[i] : i \in 1..Len(seq)}

\* pd.DataFrame(index=range(n), columns=template_headers): all cells missing
EmptyRow(headers) == [c \in Range(headers) |-> NaN]

\* A data row a template may already hold when it is uploaded.
PriorRow(headers) ==
    [c \in Range(headers) |->
       CASE c = "Temp ID" -> StrVal(S_A7)
         [] c = "Name" -> StrVal(S_PlanA)
         [] OTHER -> NaN]

\* The uploaded templates: with a Temp ID column, empty or already holding
\* rows, and without a Temp ID column.  ok tells whether the file at
\* template_path can be opened.
Templates ==
    { [ok |-> TRUE, headers |-> FullHeaders, data |-> <<>>],
      [ok |-> TRUE, headers |-> FullHeaders, data |-> [i \in 1..3 |-> PriorRow(FullHeaders)]],
      [ok |-> TRUE, headers |-> Tail(FullHeaders), data |-> <<>>] }

\* source_df[col] / reference_df[col] aligned on the index 0..n-1 of output_df
Aligned(frame, col, n) ==
    [i \in 1..n |-> IF i <= Len(frame.rows) THEN frame.rows[i][col] ELSE NaN]

\* ------------------------------------------------------- Temp ID backfill
\* mask = col.isna() | (col.astype(str).str.strip() == '')
IsBlankId(v) == IsNa(v) \/ Strip(AsStr(v)) = <<>>

\* output_df.loc[mask, 'Temp ID'] = range(5001, 5001 + mask.sum()):
\* the masked positions take the successive values of the range
RECURSIVE AssignRange(_, _, _)
AssignRange(ids, i, next) ==
    IF i > Len(ids) THEN ids
    ELSE IF IsBlankId(ids[i])
         THEN AssignRange([ids EXCEPT ![i] = IntVal(next)], i + 1, next + 1)
         ELSE AssignRange(ids, i + 1, next)

FirstTempId == 5001

\* Column of Temp IDs of a sequence of rows (empty when there is no such column)
IdColumn(rows, headers) ==
    IF "Temp ID" \in Range(headers)
    THEN [i \in 1..Len(rows) |-> rows[i]["Temp ID"]]
    ELSE <<>>

\* The Temp ID block with the range of the no-identifier-column branch
\* starting one too high.
TempIdLogic_RangeOffByOne(rows, headers, source_has_id) ==
    IF "Temp ID" \notin Range(headers) THEN rows
    ELSE IF source_has_id
         THEN LET ids == AssignRange(IdColumn(rows, headers), 1, FirstTempId)
              IN [i \in 1..Len(rows) |-> [rows[i] EXCEPT !["Temp ID"] = ids[i]]]
         ELSE [i \in 1..Len(rows) |->
                 [rows[i] EXCEPT !["Temp ID"] = IntVal(FirstTempId + i)]]

\* The "Temp ID logic" block shared by the five synthesizers: rows is
\* output_df, source_has_id is 'Temp ID' in <originating frame>.columns.
TempIdLogic(rows, headers, source_has_id) ==
    IF "Temp ID" \notin Range(headers) THEN rows
    ELSE IF source_has_id
         THEN LET ids == AssignRange(IdColumn(rows, headers), 1, FirstTempId)
              IN [i \in 1..Len(rows) |-> [rows[i] EXCEPT !["Temp ID"] = ids[i]]]
         ELSE [i \in 1..Len(rows) |->
                 [rows[i] EXCEPT !["Temp ID"] = IntVal(FirstTempId + i - 1)]]

\* The write as if_sheet_exists='replace' would do it: the sheet holds the
\* rows of output_df and nothing else.
Overlay_Replace(data, rows) == rows

\* to_excel(..., startrow=2, header=False) with if_sheet_exists='overlay':
\* the rows of output_df replace data rows 1..n, later rows stay
Overlay(data, rows) ==
    rows \o (IF Len(data) > Len(rows) THEN SubSeq(data, Len(rows) + 1, Len(data)) ELSE <<>>)

\* ------------------------------------------------------ generic synthesizer
GenericColumn(col, column_mapping, src, ref, n) ==
    LET src_col == IF col \in DOMAIN column_mapping THEN column_mapping[col] ELSE ""
    IN IF src_col # "" /\ src_col \in src.columns THEN Aligned(src, src_col, n)
       ELSE IF src_col # "" /\ ~ref.none /\ src_col \in ref.columns THEN Aligned(ref, src_col, n)
       ELSE IF col \in src.columns THEN Aligned(src, col, n)
       ELSE IF ~ref.none /\ col \in ref.columns THEN Aligned(ref, col, n)
       ELSE [i \in 1..n |-> NaN]

\* output_df of generic_update_logic before the Temp ID block
GenericFill(headers, src, column_mapping, default_values, ref) ==
    LET n == Len(src.rows)
        cols == [c \in Range(headers) |->
                   IF DOMAIN default_values # {} /\ c \in DOMAIN default_values
                   THEN [i \in 1..n |-> default_values[c]]
                   ELSE IF DOMAIN column_mapping # {}
                        THEN GenericColumn(c, column_mapping, src, ref, n)
                        ELSE [i \in 1..n |-> NaN]]
    IN [i \in 1..n |-> [c \in Range(headers) |-> cols[c][i]]]

\* ------------------------------------------------- Service Plan synthesizer
\* source_df.drop_duplicates(subset=['Name']).reset_index(drop=True): walk the
\* rows in order and keep a row when its Name was not seen before
RECURSIVE DropDuplicatesFrom(_, _, _, _)
DropDuplicatesFrom(rows, i, seen, kept) ==
    IF i > Len(rows) THEN kept
    ELSE IF rows[i]["Name"] \in seen
         THEN DropDuplicatesFrom(rows, i + 1, seen, kept)
         ELSE DropDuplicatesFrom(rows, i + 1, seen \cup {rows[i]["Name"]},
                                 Append(kept, rows[i]))

\* drop_duplicates keeping the last record of each Name instead of the first
DropDuplicates_KeepLast(rows) ==
    LET keep == {i \in 1..Len(rows) :
                    \A j \in (i + 1)..Len(rows) : rows[j]["Name"] # rows[i]["Name"]}
        RECURSIVE Pick(_)
        Pick(i) == IF i > Len(rows) THEN <<>>
                   ELSE IF i \in keep THEN <<rows[i]>> \o Pick(i + 1)
                   ELSE Pick(i + 1)
    IN Pick(1)

DropDuplicates(rows) == DropDuplicatesFrom(rows, 1, {}, <<>>)

\* name_value = str(row['Name']) if not pd.isna(row['Name']) else ''
NameValue(row) == IF IsNa(row["Name"]) THEN <<>> ELSE AsStr(row["Name"])

\* 'warranty' in name_value.lower()
IsWarranty(row) == Contains(S_warranty, Lower(NameValue(row)))

WarrantyOverrides ==
    [c \in {"GS_Rev_Rec_Method__c", "HCS_Related_To__c", "Account_Type__c",
            "Duration_months__c", "Start_Date__c"} |->
       CASE c = "GS_Rev_Rec_Method__c" -> StrVal(S_Warranty)
         [] c = "HCS_Related_To__c" -> StrVal(S_Warranty)
         [] c = "Account_Type__c" -> StrVal(S_Customer)
         [] c = "Duration_months__c" -> StrVal(S_12)
         [] OTHER -> StrVal(S_eOMWarrantyStartDate)]

\* dict.update
DictUpdate(d, o) ==
    [c \in DOMAIN d \cup DOMAIN o |-> IF c \in DOMAIN o THEN o[c] ELSE d[c]]

\* row_defaults = default_values.copy(), updated for a warranty record
RowDefaults(default_values, row) ==
    IF IsWarranty(row) THEN DictUpdate(default_values, WarrantyOverrides)
    ELSE default_values

\* The record with the same-named source column taking precedence over the
\* per-record default.
ServicePlanRow_SourceFirst(headers, columns, default_values, row) ==
    LET row_defaults == RowDefaults(default_values, row)
    IN [c \in Range(headers) |->
          IF c \in columns THEN row[c]
          ELSE IF c \in DOMAIN row_defaults THEN row_defaults[c]
          ELSE NaN]

\* one record of output_df of update_service_plan before the Temp ID block
ServicePlanRow(headers, columns, default_values, row) ==
    LET row_defaults == RowDefaults(default_values, row)
    IN [c \in Range(headers) |->
          IF c \in DOMAIN row_defaults THEN row_defaults[c]
          ELSE IF c \in columns THEN row[c]
          ELSE NaN]

\* The fill with row_defaults aliasing default_values (no copy): the overrides
\* of a warranty record stay in force for every later record.
ServicePlanFill_SharedDefaults(headers, unique_df, default_values) ==
    [i \in 1..Len(unique_df.rows) |->
       ServicePlanRow(headers, unique_df.columns,
                      IF \E j \in 1..(i - 1) : IsWarranty(unique_df.rows[j])
                      THEN DictUpdate(default_values, WarrantyOverrides)
                      ELSE default_values,
                      unique_df.rows[i])]

ServicePlanFill(headers, unique_df, default_values) ==
    [i \in 1..Len(unique_df.rows) |->
       ServicePlanRow(headers, unique_df.columns, default_values, unique_df.rows[i])]

\* --------------------------------------------- Service Offering synthesizer
ServiceOfferingCell_DefaultsFirst(col, i, src, column_mapping, default_values, ref) ==
    IF col \in DOMAIN column_mapping /\ column_mapping[col] \in src.columns
    THEN src.rows[i][column_mapping[col]]
    ELSE IF col \in DOMAIN default_values THEN default_values[col]
    ELSE IF col \in src.columns THEN src.rows[i][col]
    ELSE IF ~ref.none /\ col \in ref.columns
         THEN (IF i - 1 < Len(ref.rows) THEN ref.rows[i][col] ELSE NaN)
    ELSE NaN

ServiceOfferingCell(col, i, src, column_mapping, default_values, ref) ==
    IF col \in DOMAIN column_mapping /\ column_mapping[col] \in src.columns
    THEN src.rows[i][column_mapping[col]]
    ELSE IF col \in src.columns THEN src.rows[i][col]
    ELSE IF col \in DOMAIN default_values THEN default_values[col]
    ELSE IF ~ref.none /\ col \in ref.columns
         THEN (IF i - 1 < Len(ref.rows) THEN ref.rows[i][col] ELSE NaN)
    ELSE NaN

ServiceOfferingFill(headers, src, column_mapping, default_values, ref) ==
    [i \in 1..Len(src.rows) |->
       [c \in Range(headers) |->
          ServiceOfferingCell(c, i, src, column_mapping, default_values, ref)]]

\* ------------------------------------------------------ pricing synthesizers
\* Series.str exists only for a column of object dtype: the reader infers
\* float64 for a column whose cells are all empty or all numbers
StrAccessorOk(src, col) ==
    Len(src.rows) = 0 \/ \E i \in 1..Len(src.rows) : src.rows[i][col].t = "str"

\* source_df.get(flag, '').str.lower() == 'yes', as the sequence of index
\* labels (0-based) of the rows it selects; the index is not reset
FilterYes(src, flag) ==
    LET RECURSIVE Sel(_)
        Sel(i) == IF i > Len(src.rows) THEN <<>>
                  ELSE IF src.rows[i][flag].t = "str" /\ Lower(src.rows[i][flag].s) = S_yes
                       THEN <<i - 1>> \o Sel(i + 1)
                       ELSE Sel(i + 1)
    IN Sel(1)

\* the cells one record of update_parts_pricing assigns
PartsPricingCells(headers, columns, column_mapping, default_values, row) ==
    [c \in {h \in Range(headers) :
              \/ h \in columns
              \/ h \in DOMAIN column_mapping /\ column_mapping[h] \in columns
              \/ h \in DOMAIN default_values} |->
       IF c \in columns THEN row[c]
       ELSE IF c \in DOMAIN column_mapping /\ column_mapping[c] \in columns
            THEN row[column_mapping[c]]
       ELSE default_values[c]]

\* output_df.at[label, col] = value for every cell of one record: a label
\* that is not in the index is appended to it as a new, otherwise empty, row
SetAt(df, headers, label, cells) ==
    IF DOMAIN cells = {} THEN df
    ELSE IF \E k \in 1..Len(df.index) : df.index[k] = label
         THEN LET k == CHOOSE k \in 1..Len(df.index) : df.index[k] = label
              IN [df EXCEPT !.rows[k] =
                    [c \in Range(headers) |-> IF c \in DOMAIN cells THEN cells[c] ELSE @[c]]]
         ELSE [index |-> Append(df.index, label),
               rows |-> Append(df.rows,
                    [c \in Range(headers) |->
                       IF c \in DOMAIN cells THEN cells[c] ELSE NaN])]

RECURSIVE PartsPricingFrom(_, _, _, _, _, _, _)
PartsPricingFrom(df, headers, src, filtered, k, column_mapping, default_values) ==
    IF k > Len(filtered) THEN df
    ELSE PartsPricingFrom(
           SetAt(df, headers, filtered[k],
                 PartsPricingCells(headers, src.columns, column_mapping, default_values,
                                   src.rows[filtered[k] + 1])),
           headers, src, filtered, k + 1, column_mapping, default_values)

\* output_df of update_parts_pricing before the Temp ID block
PartsPricingFill(headers, src, filtered, column_mapping, default_values) ==
    PartsPricingFrom(
        [index |-> [k \in 1..Len(filtered) |-> k - 1],
         rows |-> [k \in 1..Len(filtered) |-> EmptyRow(headers)]],
        headers, src, filtered, 1, column_mapping, default_values).rows

\* one record of output_df of update_labor_pricing
LaborPricingRow(headers, columns, column_mapping, default_values, row, labor_type) ==
    [c \in Range(headers) |->
       IF c = "Labor_Type__c" THEN StrVal(labor_type)
       ELSE IF c \in columns THEN row[c]
       ELSE IF c \in DOMAIN column_mapping /\ column_mapping[c] \in columns
            THEN row[column_mapping[c]]
       ELSE IF c \in DOMAIN default_values THEN default_values[c]
       ELSE NaN]

LaborTypes == <<S_Labor, S_Travel>>

\* The expansion reading the source record at the output position instead of
\* at the label the filter selected.
LaborPricingFill_ByPosition(headers, src, filtered, column_mapping, default_values) ==
    [row_idx \in 1..(2 * Len(filtered)) |->
       LaborPricingRow(headers, src.columns, column_mapping, default_values,
                       src.rows[(row_idx + 1) \div 2],
                       LaborTypes[((row_idx - 1) % 2) + 1])]

\* output_df of update_labor_pricing before the Temp ID block: row_idx counts
\* the rows written, two for each selected record
LaborPricingFill(headers, src, filtered, column_mapping, default_values) ==
    [row_idx \in 1..(2 * Len(filtered)) |->
       LaborPricingRow(headers, src.columns, column_mapping, default_values,
                       src.rows[filtered[(row_idx + 1) \div 2] + 1],
                       LaborTypes[((row_idx - 1) % 2) + 1])]

\* ------------------------------------------------------- validation rules
\* TEMPLATE_VALIDATION_RULES: required and unique are lists; types and values
\* are dicts, kept as sequences of <<column, value>> in insertion order
\* because a missing column stops the scan in the middle of the iteration.
RuleTypes == {"Service Contract DLT", "Service Plan", "Service Offering",
              "Parts Pricing", "Labor Pricing"}

TEMPLATE_VALIDATION_RULES ==
    [t \in RuleTypes |->
      CASE t = "Service Contract DLT" ->
             [required |-> <<"Temp ID", "SVMXC__End_Date__c", "SVMXC__Start_Date__c">>,
              unique |-> <<"Temp ID">>,
              types |-> << <<"Temp ID", "str">> >>,
              values |-> << <<"SVMXC__Active__c", StrVal(S_TRUE)>>,
                            <<"HCS_Status__c", StrVal(S_Draft)>>,
                            <<"HCS_Related_To__c", StrVal(S_ServiceContract)>> >>]
        [] t = "Service Plan" ->
             [required |-> <<"Name">>,
              unique |-> <<"Name">>,
              types |-> << <<"Name", "str">> >>,
              values |-> << <<"SVMXC__Active__c", StrVal(S_TRUE)>> >>]
        [] t = "Service Offering" ->
             [required |-> <<"Temp ID">>,
              unique |-> <<"Temp ID">>,
              types |-> << <<"Temp ID", "str">> >>,
              values |-> << <<"Billing_Type__c", StrVal(S_NonBillable)>> >>]
        [] t = "Parts Pricing" ->
             [required |-> <<"Service_Offering__c", "Pricing_Type__c">>,
              unique |-> <<"Service_Offering__c">>,
              types |-> << <<"Service_Offering__c", "str">>, <<"Pricing_Type__c", "str">> >>,
              values |-> << <<"Display_Entitlement__c", StrVal(S_TRUE)>> >>]
        [] OTHER ->
             [required |-> <<"Service_Offering__c">>,
              unique |-> <<"Service_Offering__c">>,
              types |-> << <<"Service_Offering__c", "str">> >>]]

\* validation_rules.get("values", {})
RuleValues(validation_rules) ==
    IF "values" \in DOMAIN validation_rules THEN validation_rules.values ELSE <<>>

\* ------------------------------------------------------ validation engine
S_NA == <<"N", "/", "A">>

\* row.get('Temp ID', 'N/A')
RowGet(row, col) == IF col \in DOMAIN row THEN row[col] ELSE StrVal(S_NA)

\* One entry of consolidated_issues.  The 'Issue' text is kept as its parts:
\* kind names the message, val and expected are the values it quotes.
Issue(template_name, row_index, temp_id, column, kind, val, expected) ==
    [template_name |-> template_name, row_index |-> row_index, temp_id |-> temp_id,
     column |-> column, kind |-> kind, val |-> val, expected |-> expected]

\* the fixed words of each 'Issue' text
S_DoesNotMatchDefault == <<"d", "o", "e", "s", " ", "n", "o", "t", " ", "m", "a", "t", "c", "h", " ", "d", "e", "f", "a", "u", "l", "t">>
S_DuplicateEntryIdentified == <<"D", "u", "p", "l", "i", "c", "a", "t", "e", " ", "e", "n", "t", "r", "y", " ", "I", "d", "e", "n", "t", "i", "f", "i", "e", "d">>
S_MustNotContainBlank == <<"m", "u", "s", "t", " ", "n", "o", "t", " ", "c", "o", "n", "t", "a", "i", "n", " ", "b", "l", "a", "n", "k">>
S_ShouldBe == <<"s", "h", "o", "u", "l", "d", " ", "b", "e">>
S_TempIdIsBlank == <<"T", "e", "m", "p", " ", "I", "D", " ", "i", "s", " ", "b", "l", "a", "n", "k">>

IssueWords(kind) ==
    CASE kind = "source_default" -> S_DoesNotMatchDefault
      [] kind = "value" -> S_DoesNotMatchDefault
      [] kind = "duplicate" -> S_DuplicateEntryIdentified
      [] kind = "required" -> S_MustNotContainBlank
      [] kind = "type" -> S_ShouldBe
      [] OTHER -> S_TempIdIsBlank

\* df.dropna(how='all') followed by reset_index(drop=True)
DropNaAll(rows) == SelectSeq(rows, LAMBDA r : \E c \in DOMAIN r : ~IsNa(r[c]))

\* relevant_columns: the columns holding at least one value
relevant_columns(df, columns) ==
    {c \in columns : \E i \in 1..Len(df) : ~IsNa(df[i][c])}

\* key_columns
key_columns(validation_rules, relevant) ==
    SelectSeq(validation_rules.unique, LAMBDA c : c \in relevant)

\* "Validate source values against defaults"
SourceIssues(template_name, src, with_source, default_values) ==
    IF with_source /\ src.rows # <<>>
    THEN { Issue(template_name, p[2] - 1, RowGet(src.rows[p[2]], "Temp ID"), p[1],
                 "source_default", src.rows[p[2]][p[1]], default_values[p[1]]) :
           p \in { q \in (DOMAIN default_values \cap src.columns) \X (1..Len(src.rows)) :
                     /\ ~IsNa(src.rows[q[2]][q[1]])
                     /\ normalize_value(src.rows[q[2]][q[1]])
                          # normalize_value(default_values[q[1]]) } }
    ELSE {}

duplicates_mask_KeepFirst(df, keys) ==
    [i \in 1..Len(df) |->
       \E j \in 1..(i - 1) : \A k \in 1..Len(keys) : df[i][keys[k]] = df[j][keys[k]]]

\* df.duplicated(subset=key_columns, keep=False)
duplicates_mask(df, keys) ==
    [i \in 1..Len(df) |->
       \E j \in 1..Len(df) :
          j # i /\ \A k \in 1..Len(keys) : df[i][keys[k]] = df[j][keys[k]]]

DuplicateIssues(template_name, df, keys) ==
    IF keys = <<>> THEN {}
    ELSE { Issue(template_name, i - 1, RowGet(df[i], "Temp ID"), keys[1],
                 "duplicate", NaN, NaN) :
           i \in {j \in 1..Len(df) : duplicates_mask(df, keys)[j]} }

\* What a part of the scan of one template type leaves behind: the entries
\* it appended and whether it stopped on an exception.
ScanDone(issues) == [issues |-> issues, raised |-> FALSE]
ScanRaised(issues) == [issues |-> issues, raised |-> TRUE]

\* "Required fields": df[col] raises KeyError for a column the sheet lacks
RECURSIVE RequiredScan(_, _, _, _)
RequiredScan(required, template_name, df, columns) ==
    IF required = <<>> THEN ScanDone({})
    ELSE IF Head(required) \notin columns THEN ScanRaised({})
    ELSE LET col == Head(required)
             here == { Issue(template_name, i - 1, RowGet(df[i], "Temp ID"), col,
                             "required", NaN, NaN) :
                       i \in {j \in 1..Len(df) : is_blank(df[j][col])} }
             rest == RequiredScan(Tail(required), template_name, df, columns)
         IN [rest EXCEPT !.issues = here \cup @]

\* The type test as if an integer passed for a string.
IsInstance_IntIsStr(val, typ) == val.t = typ \/ (val.t = "int" /\ typ = "str")

\* isinstance(val, typ)
IsInstance(val, typ) == val.t = typ

\* "Type checks"
RECURSIVE TypeScan(_, _, _, _)
TypeScan(types, template_name, df, columns) ==
    IF types = <<>> THEN ScanDone({})
    ELSE IF Head(types)[1] \notin columns THEN ScanRaised({})
    ELSE LET col == Head(types)[1]
             typ == Head(types)[2]
             here == { Issue(template_name, i - 1, RowGet(df[i], "Temp ID"), col,
                             "type", NaN, NaN) :
                       i \in {j \in 1..Len(df) :
                                ~IsNa(df[j][col]) /\ ~IsInstance(df[j][col], typ)} }
             rest == TypeScan(Tail(types), template_name, df, columns)
         IN [rest EXCEPT !.issues = here \cup @]

\* "Value checks"
RECURSIVE ValueScan(_, _, _, _)
ValueScan(values, template_name, df, columns) ==
    IF values = <<>> THEN ScanDone({})
    ELSE IF Head(values)[1] \notin columns THEN ScanRaised({})
    ELSE LET col == Head(values)[1]
             expected == Head(values)[2]
             here == { Issue(template_name, i - 1, RowGet(df[i], "Temp ID"), col,
                             "value", df[i][col], expected) :
                       i \in {j \in 1..Len(df) :
                                /\ ~IsNa(df[j][col])
                                /\ normalize_value(df[j][col]) # normalize_value(expected)} }
             rest == ValueScan(Tail(values), template_name, df, columns)
         IN [rest EXCEPT !.issues = here \cup @]

\* "Temp ID blank check"
TempIdBlankIssues(template_name, df, columns) ==
    IF "Temp ID" \in columns
    THEN { Issue(template_name, i - 1, df[i]["Temp ID"], "Temp ID", "id_blank", NaN, NaN) :
           i \in {j \in 1..Len(df) : IsBlankId(df[j]["Temp ID"])} }
    ELSE {}

\* The body of the loop over the requested names for one template_name whose
\* data is not empty.  filtered_validation_rules.get(template_name) is None
\* for a name without rules, and validation_rules.get('unique', []) then
\* raises before any check has run.
ScanTemplate(template_name, df, columns, src, with_source) ==
    IF template_name \notin DOMAIN TEMPLATE_VALIDATION_RULES THEN ScanRaised({})
    ELSE LET validation_rules == TEMPLATE_VALIDATION_RULES[template_name]
             default_values == DefaultValuesOf(template_name)
             keys == key_columns(validation_rules, relevant_columns(df, columns))
             first == SourceIssues(template_name, src, with_source, default_values)
                        \cup DuplicateIssues(template_name, df, keys)
             req == RequiredScan(validation_rules.required, template_name, df, columns)
             typ == IF req.raised THEN ScanRaised({})
                    ELSE TypeScan(validation_rules.types, template_name, df, columns)
             val == IF typ.raised THEN ScanRaised({})
                    ELSE ValueScan(RuleValues(validation_rules), template_name, df, columns)
             ids == IF val.raised THEN {}
                    ELSE TempIdBlankIssues(template_name, df, columns)
         IN [issues |-> first \cup req.issues \cup typ.issues \cup val.issues \cup ids,
             raised |-> val.raised]

all_validation_passed_ExceptionsOnly(issues, excepted) == excepted = {}

\* all_validation_passed after the loop: cleared by the except clause of a
\* scan that raised, and at the end of a scan that finds the list non-empty
all_validation_passed(issues, excepted) == issues = {} /\ excepted = {}

\* The distinct 'Issue' texts merged onto the row with this Row_Index, each
\* with the column it is grouped under ('Validation_<column>').
RowFindings(issues, row_index) ==
    { [column |-> iss.column, kind |-> iss.kind, val |-> iss.val, expected |-> iss.expected] :
      iss \in {x \in issues : x.row_index = row_index} }

\* summary_df: the sheet read again without dropna, the rows with a
\* non-empty Validation_Summary, then the rows whose 'Temp ID' is not NaN
summary_df(data, issues) ==
    SelectSeq([i \in 1..Len(data) |->
                 [Row_Index |-> i - 1, temp_id |-> data[i]["Temp ID"],
                  findings |-> RowFindings(issues, i - 1)]],
              LAMBDA r : r.findings # {} /\ ~IsNa(r.temp_id))

\* summary_df['Validation_Summary'].str.contains(marker).sum()
MarkerCount(summary, marker) ==
    Cardinality({i \in 1..Len(summary) :
                   \E f \in summary[i].findings : Contains(marker, IssueWords(f.kind))})

Truthy_NotNone(value) == value.t # "nan"

\* `if value` for a picklist value: None (kept as the missing value) and the
\* empty string are false
Truthy(value) ==
    CASE value.t = "str" -> value.s # <<>>
      [] value.t = "int" -> value.n # 0
      [] value.t = "bool" -> value.n = 1
      [] OTHER -> FALSE

\* The column of one data row after the loop over picklist_values.items()
RECURSIVE PicklistCell(_, _, _, _)
PicklistCell(picklist_values, header_row, col, cell) ==
    IF picklist_values = <<>> THEN cell
    ELSE LET entry == Head(picklist_values)
             now == IF Truthy(entry[2]) /\ entry[1] \in header_row /\ entry[1] = col
                    THEN entry[2] ELSE cell
         IN PicklistCell(Tail(picklist_values), header_row, col, now)

\* ------------------------------------------------------------------ state
VARIABLES
    template,    \* the template sheet: [ok, headers, data]
    source_df,   \* the uploaded source batch
    op,          \* the operation that ran last
    args,        \* the arguments it was called with
    ids_before,  \* the Temp ID column of output_df when the Temp ID block starts
    written,     \* number of rows the last operation wrote (-1: it wrote nothing)
    result,      \* what the last operation returned, or that it raised
    summary_sheet, \* the 'Validation_Summary' sheet of the template file
    validation,  \* what the last validate_template_logic run did and returned
    mapping_tab  \* the mapping tab: its two files, the last tagging and summary

vars == <<template, source_df, op, args, ids_before, written, result,
          summary_sheet, validation, mapping_tab>>

\* output_df of the last update, as it stands in the sheet
output_df == IF written < 0 THEN <<>> ELSE SubSeq(template.data, 1, written)

\* Template types update_template is called with: the types the caller routes
\* to it, a type without a column mapping and a type that is not configured.
UpdateTemplateTypes ==
    {"Service Contract DLT", "Covered Product_Service Contract", "Service Plan", "Unknown"}

NoArgs == [template_type |-> "", reference_df |-> NoReference,
           templates_to_validate |-> {}, with_source |-> FALSE,
           picklist_values |-> <<>>]

\* The workbook has no 'Validation_Summary' sheet.
NoSummarySheet == [present |-> FALSE, columns |-> {}, rows |-> <<>>]

\* No validation run has returned since the last other operation.
NoValidation ==
    [ran |-> FALSE, raised |-> FALSE, issues |-> {}, excepted |-> {},
     total_records |-> 0, duplicate_temp_id_count |-> 0,
     default_mismatch_count |-> 0, validation_passed |-> TRUE]

\* The mapping tab before any file is uploaded and any button pressed: no
\* readable file, no summary returned yet.
NoFile == [ok |-> FALSE, columns |-> {}, rows |-> <<>>]

NoLocationSummary ==
    [ran |-> FALSE, status |-> FALSE, message |-> "", source_records |-> 0,
     ucm_id_found |-> 0, ucm_id_not_found |-> 0,
     bill_to_valid_count |-> 0, bill_to_not_valid_count |-> 0,
     ship_to_valid_count |-> 0, ship_to_not_valid_count |-> 0,
     updated_records |-> 0]

NoInstallSummary ==
    [ran |-> FALSE, status |-> FALSE, message |-> "", source_records |-> 0,
     updated_records |-> 0, matched_products |-> 0, unmatched_products |-> 0]

NoMappingRun ==
    [source_file |-> NoFile, mapping_file |-> NoFile,
     location_summary |-> NoLocationSummary, install_summary |-> NoInstallSummary]

Returned(status, count) == [raised |-> FALSE, status |-> status, record_count |-> count]
Raised == [raised |-> TRUE, status |-> FALSE, record_count |-> 0]

Init ==
    /\ template \in Templates
    /\ source_df \in SourceFrames
    /\ op = "none"
    /\ args = NoArgs
    /\ ids_before = <<>>
    /\ written = -1
    /\ result = Returned(TRUE, 0)
    /\ summary_sheet = NoSummarySheet
    /\ validation = NoValidation
    /\ mapping_tab = NoMappingRun

\* The write shared by the synthesizers: fill is output_df before the Temp ID
\* block, out is output_df as written.
Write(fill, out) ==
    /\ ids_before' = IdColumn(fill, template.headers)
    /\ written' = Len(out)
    /\ template' = [template EXCEPT !.data = Overlay(template.data, out)]
    /\ validation' = NoValidation
    /\ UNCHANGED <<summary_sheet, mapping_tab>>

\* An operation that ends without writing the template.
NoWrite ==
    /\ ids_before' = <<>>
    /\ written' = -1
    /\ validation' = NoValidation
    /\ UNCHANGED <<template, summary_sheet, mapping_tab>>

\* update_template(template_type, template_path, source_df, reference_df=ref)
update_template(template_type, ref) ==
    LET headers == template.headers
        fill == GenericFill(headers, source_df, ColumnMappingOf(template_type),
                            DefaultValuesOf(template_type), ref)
        out == TempIdLogic(fill, headers, "Temp ID" \in source_df.columns)
    IN /\ op' = "update_template"
       /\ args' = [NoArgs EXCEPT !.template_type = template_type, !.reference_df = ref]
       /\ IF template.ok
          THEN /\ Write(fill, out)
               /\ result' = Returned(TRUE, Len(source_df.rows))
          ELSE /\ NoWrite
               /\ result' = Returned(FALSE, 0)
       /\ UNCHANGED source_df

\* update_service_plan(template_path, source_df)
update_service_plan ==
    /\ op' = "update_service_plan"
    /\ args' = NoArgs
    /\ UNCHANGED source_df
    /\ IF "Name" \notin source_df.columns \/ ~template.ok
       THEN /\ result' = Raised
            /\ NoWrite
       ELSE LET headers == template.headers
                unique_df == [columns |-> source_df.columns,
                              rows |-> DropDuplicates(source_df.rows)]
                fill == ServicePlanFill(headers, unique_df, DefaultValuesOf("Service Plan"))
                out == TempIdLogic(fill, headers, "Temp ID" \in unique_df.columns)
            IN /\ Write(fill, out)
               /\ result' = Returned(TRUE, Len(unique_df.rows))

\* update_service_offering(template_path, source_df, reference_df=ref)
update_service_offering(ref) ==
    LET headers == template.headers
        fill == ServiceOfferingFill(headers, source_df, ColumnMappingOf("Service Offering"),
                                    DefaultValuesOf("Service Offering"), ref)
        out == TempIdLogic(fill, headers, "Temp ID" \in source_df.columns)
    IN /\ op' = "update_service_offering"
       /\ args' = [NoArgs EXCEPT !.reference_df = ref]
       /\ IF template.ok
          THEN /\ Write(fill, out)
               /\ result' = Returned(TRUE, Len(source_df.rows))
          ELSE /\ NoWrite
               /\ result' = Raised
       /\ UNCHANGED source_df

\* update_parts_pricing(template_path, source_df)
update_parts_pricing ==
    /\ op' = "update_parts_pricing"
    /\ args' = NoArgs
    /\ UNCHANGED source_df
    /\ IF "Need parts pricing" \notin source_df.columns
          \/ ~StrAccessorOk(source_df, "Need parts pricing")
       THEN /\ result' = Raised
            /\ NoWrite
       ELSE LET headers == template.headers
                filtered == FilterYes(source_df, "Need parts pricing")
                fill == PartsPricingFill(headers, source_df, filtered,
                                         ColumnMappingOf("Parts Pricing"),
                                         DefaultValuesOf("Parts Pricing"))
                out == TempIdLogic(fill, headers, "Temp ID" \in source_df.columns)
            IN IF filtered = <<>>
               THEN /\ result' = Returned(FALSE, 0)
                    /\ NoWrite
               ELSE IF ~template.ok
               THEN /\ result' = Raised
                    /\ NoWrite
               ELSE /\ Write(fill, out)
                    /\ result' = Returned(TRUE, 0)

\* update_labor_pricing(template_path, source_df)
update_labor_pricing ==
    /\ op' = "update_labor_pricing"
    /\ args' = NoArgs
    /\ UNCHANGED source_df
    /\ IF "Need labor pricing" \notin source_df.columns
          \/ ~StrAccessorOk(source_df, "Need labor pricing")
       THEN /\ result' = Raised
            /\ NoWrite
       ELSE LET headers == template.headers
                filtered == FilterYes(source_df, "Need labor pricing")
                fill == LaborPricingFill(headers, source_df, filtered,
                                         ColumnMappingOf("Labor Pricing"),
                                         DefaultValuesOf("Labor Pricing"))
                out == TempIdLogic(fill, headers, "Temp ID" \in source_df.columns)
            IN IF filtered = <<>>
               THEN /\ result' = Returned(FALSE, 0)
                    /\ NoWrite
               ELSE IF ~template.ok
               THEN /\ result' = Raised
                    /\ NoWrite
               ELSE /\ Write(fill, out)
                    /\ result' = Returned(TRUE, 0)

Next ==
    \/ \E t \in UpdateTemplateTypes : \E ref \in ReferenceFrames : update_template(t, ref)
    \/ update_service_plan
    \/ \E ref \in ReferenceFrames : update_service_offering(ref)
    \/ update_parts_pricing
    \/ update_labor_pricing

Spec == Init /\ [][Next]_vars

\* ------------------------------------------- validation and picklist runs
\* validate_template_logic(template_path, templates_to_validate=..., source_df=...)
\* templates_to_validate is [none, names]: None (every type with rules) or a
\* list of names, scanned as set(templates_to_validate); with_source tells
\* whether source_df is passed.
validate_template_logic(templates_to_validate, with_source) ==
    /\ op' = "validate_template_logic"
    /\ args' = [NoArgs EXCEPT !.templates_to_validate = templates_to_validate,
                              !.with_source = with_source]
    /\ ids_before' = <<>>
    /\ written' = -1
    /\ UNCHANGED <<template, source_df, mapping_tab>>
    /\ IF ~template.ok
       THEN \* load_workbook raises FileNotFoundError
            /\ validation' = [NoValidation EXCEPT !.ran = TRUE, !.validation_passed = FALSE]
            /\ result' = Returned(FALSE, 0)
            /\ UNCHANGED summary_sheet
       ELSE LET requested == IF templates_to_validate.none THEN RuleTypes
                             ELSE templates_to_validate.names
                columns == Range(template.headers)
            IN \E df \in {DropNaAll(template.data)} :
               \E scans \in {[n \in (IF df = <<>> THEN {} ELSE requested) |->
                               ScanTemplate(n, df, columns, source_df, with_source)]} :
               \E consolidated_issues \in {UNION {scans[n].issues : n \in DOMAIN scans}} :
               LET excepted == {n \in DOMAIN scans : scans[n].raised}
                   total_records == Cardinality(DOMAIN scans) * Len(df)
                   ran == [NoValidation EXCEPT !.ran = TRUE,
                                            !.issues = consolidated_issues,
                                            !.excepted = excepted,
                                            !.total_records = total_records]
            IN IF consolidated_issues = {}
               THEN /\ validation' = [ran EXCEPT !.validation_passed = TRUE]
                    /\ result' = Returned(TRUE, total_records)
                    /\ UNCHANGED summary_sheet
               ELSE IF "Temp ID" \notin columns
               THEN \* df.loc[issue_rows, ['Row_Index', 'Temp ID'] + ...] raises KeyError
                    /\ validation' = [ran EXCEPT !.raised = TRUE, !.validation_passed = FALSE]
                    /\ result' = Raised
                    /\ UNCHANGED summary_sheet
               ELSE \E summary \in {summary_df(template.data, consolidated_issues)} :
                    LET passed == all_validation_passed(consolidated_issues, excepted)
                    IN /\ summary_sheet' =
                            [present |-> TRUE,
                             columns |-> {iss.column : iss \in consolidated_issues},
                             rows |-> summary]
                       /\ validation' =
                            [ran EXCEPT
                               !.duplicate_temp_id_count =
                                   MarkerCount(summary, S_DuplicateEntryIdentified),
                               !.default_mismatch_count =
                                   MarkerCount(summary, S_DoesNotMatchDefault),
                               !.validation_passed = passed]
                       /\ result' = Returned(passed, total_records)

\* update_template_with_picklist(template_path, sheet_name, picklist_values)
update_template_with_picklist(picklist_values) ==
    /\ op' = "update_template_with_picklist"
    /\ args' = [NoArgs EXCEPT !.picklist_values = picklist_values]
    /\ ids_before' = <<>>
    /\ written' = -1
    /\ validation' = NoValidation
    /\ UNCHANGED <<source_df, summary_sheet, mapping_tab>>
    /\ IF ~template.ok
       THEN /\ result' = Returned(FALSE, 0)
            /\ UNCHANGED template
       ELSE LET header_row == Range(template.headers)
            IN /\ template' =
                    [template EXCEPT !.data =
                       [i \in 1..Len(template.data) |->
                          [c \in header_row |->
                             PicklistCell(picklist_values, header_row, c,
                                          template.data[i][c])]]]
               /\ result' = Returned(TRUE, 0)

\* ------------------------------------ validation runs: files and requests
S_true == <<"t", "r", "u", "e">>
S_True_padded == <<" ", "T", "r", "u", "e", " ">>
S_B8 == <<"B", "8">>
S_Blank == <<" ">>

\* a data row of the sheet: the given cells, every other cell empty
RowOf(headers, cells) ==
    [c \in Range(headers) |-> IF c \in DOMAIN cells THEN cells[c] ELSE NaN]

\* A sheet with rule violations: a repeated Temp ID and Name, identifiers
\* that are whitespace, missing and a number, spellings of TRUE, and cells
\* that differ from the fixed values.
DirtyRows ==
    << ("Temp ID" :> StrVal(S_A7)) @@ ("Name" :> StrVal(S_PlanA))
         @@ ("SVMXC__Active__c" :> StrVal(S_true))
         @@ ("Billing_Type__c" :> StrVal(S_NonBillable)),
       ("Temp ID" :> StrVal(S_A7)) @@ ("Name" :> StrVal(S_PlanA))
         @@ ("SVMXC__Active__c" :> BoolVal(TRUE))
         @@ ("Billing_Type__c" :> StrVal(S_Billable)),
       ("Temp ID" :> StrVal(S_Blank)) @@ ("SVMXC__Active__c" :> StrVal(S_True_padded)),
       ("Temp ID" :> NaN) @@ ("Name" :> StrVal(S_WarrantyPlan))
         @@ ("SVMXC__Active__c" :> StrVal(S_FALSE)),
       ("Temp ID" :> IntVal(5001)) @@ ("Name" :> StrVal(S_Blank))
         @@ ("SVMXC__Active__c" :> StrVal(S_Blank)) >>

\* A sheet with an empty row between two data rows.
GapRows ==
    << ("Temp ID" :> StrVal(S_A7)) @@ ("Name" :> StrVal(S_PlanA))
         @@ ("SVMXC__Active__c" :> StrVal(S_TRUE)),
       ("Temp ID" :> NaN),
       ("Temp ID" :> StrVal(S_B8)) @@ ("SVMXC__Active__c" :> StrVal(S_TRUE)) >>

\* A sheet that satisfies the rules of Service Contract DLT, Service Plan and
\* Service Offering.
CleanRow(id, name) ==
    ("Temp ID" :> StrVal(id)) @@ ("Name" :> StrVal(name))
      @@ ("SVMXC__Active__c" :> StrVal(S_TRUE))
      @@ ("SVMXC__End_Date__c" :> StrVal(S_2024))
      @@ ("SVMXC__Start_Date__c" :> StrVal(S_2024))
      @@ ("HCS_Status__c" :> StrVal(S_Draft))
      @@ ("HCS_Related_To__c" :> StrVal(S_ServiceContract))
      @@ ("Billing_Type__c" :> StrVal(S_NonBillable))

CleanRows == << CleanRow(S_A7, S_PlanA), CleanRow(S_B8, S_WarrantyPlan) >>

\* A sheet without a Temp ID column whose two rows repeat a Name.
NoIdRows == << ("Name" :> StrVal(S_PlanA)), ("Name" :> StrVal(S_PlanA)) >>

SheetOf(headers, rows) ==
    [ok |-> TRUE, headers |-> headers,
     data |-> [i \in 1..Len(rows) |-> RowOf(headers, rows[i])]]

\* The header row without its last two columns, SVMXC__End_Date__c and
\* HCS_Status__c.
ShortHeaders == SubSeq(FullHeaders, 1, Len(FullHeaders) - 2)

\* The template files validation is run on; the last cannot be opened.
ValidationTemplates ==
    { SheetOf(FullHeaders, <<>>),
      SheetOf(FullHeaders, DirtyRows),
      SheetOf(FullHeaders, GapRows),
      SheetOf(FullHeaders, CleanRows),
      SheetOf(Tail(FullHeaders), NoIdRows),
      SheetOf(ShortHeaders, <<>>),
      [ok |-> FALSE, headers |-> FullHeaders, data |-> <<>>] }

FrameOf(columns, rows) ==
    [columns |-> columns, rows |-> [i \in 1..Len(rows) |-> [c \in columns |-> rows[i][c]]]]

\* The source batches of the validation runs.
ValidationSources ==
    { FrameOf({"Name", "SVMXC__Active__c"},
              << ("Name" :> StrVal(S_PlanA)) @@ ("SVMXC__Active__c" :> StrVal(S_True_padded)),
                 ("Name" :> StrVal(S_WarrantyPlan)) @@ ("SVMXC__Active__c" :> BoolVal(TRUE)) >>),
      FrameOf({"Name", "SVMXC__Active__c"},
              << ("Name" :> StrVal(S_PlanA)) @@ ("SVMXC__Active__c" :> StrVal(S_FALSE)),
                 ("Name" :> StrVal(S_PlanA)) @@ ("SVMXC__Active__c" :> StrVal(S_Blank)) >>),
      FrameOf({"Temp ID", "Billing_Type__c"},
              << ("Temp ID" :> IntVal(5001)) @@ ("Billing_Type__c" :> StrVal(S_Billable)),
                 ("Temp ID" :> StrVal(S_Blank)) @@ ("Billing_Type__c" :> StrVal(S_NonBillable)) >>),
      FrameOf({"Name"}, <<>>) }

AllRuleTypes == [none |-> TRUE, names |-> {}]
Names(names) == [none |-> FALSE, names |-> names]

\* <<templates_to_validate, source_df passed>> of the calls: the default, the
\* single type the caller selects together with the batch, a type without
\* rules, a list of two, and a call without the batch.
ValidateRequests ==
    { <<AllRuleTypes, TRUE>>,
      <<Names({"Service Plan"}), TRUE>>,
      <<Names({"Service Plan"}), FALSE>>,
      <<Names({"Service Offering"}), TRUE>>,
      <<Names({"Service Contract DLT"}), TRUE>>,
      <<Names({"Covered Product_Service Contract"}), TRUE>>,
      <<Names({"Covered Product_Service Contract", "Service Plan"}), TRUE>> }

S_Empty == <<>>

\* picklist_values of the calls: an entry that applies, an entry with an
\* empty value and an entry for a column the sheet lacks; an entry that
\* applies and an entry whose value is None; the empty dict.
PicklistRequests ==
    { << <<"SVMXC__Active__c", StrVal(S_TRUE)>>, <<"Billing_Type__c", StrVal(S_Empty)>>,
         <<"Missing__c", StrVal(S_Draft)>> >>,
      << <<"Name", StrVal(S_PlanA)>>, <<"HCS_Status__c", NaN>> >>,
      << >> }

ValidationInit ==
    /\ template \in ValidationTemplates
    /\ source_df \in ValidationSources
    /\ op = "none"
    /\ args = NoArgs
    /\ ids_before = <<>>
    /\ written = -1
    /\ result = Returned(TRUE, 0)
    /\ summary_sheet = NoSummarySheet
    /\ validation = NoValidation
    /\ mapping_tab = NoMappingRun

ValidationNext ==
    \/ \E call \in ValidateRequests : validate_template_logic(call[1], call[2])
    \/ update_template("Service Contract DLT", NoReference)
    \/ update_service_plan
    \/ update_service_offering(NoReference)
    \/ update_parts_pricing
    \/ update_labor_pricing

ValidationSpec == ValidationInit /\ [][ValidationNext]_vars

\* Picklist values applied, any number of times, to the same files.
PicklistNext ==
    \E picklist_values \in PicklistRequests :
        update_template_with_picklist(picklist_values)

PicklistSpec == ValidationInit /\ [][PicklistNext]_vars

\* ------------------------------------------------------------ mapping tab
S_primary == <<"p", "r", "i", "m", "a", "r", "y">>
S_PRIMARY == <<"P", "R", "I", "M", "A", "R", "Y">>
S_No == <<"N", "o">>
S_maybe == <<"m", "a", "y", "b", "e">>
S_Available == <<"A", "v", "a", "i", "l", "a", "b", "l", "e">>
S_NotAvailable == <<"N", "o", "t", " ", "A", "v", "a", "i", "l", "a", "b", "l", "e">>

\* col.astype(str).str.lower().isin(['yes', 'primary']), per cell
isin_yes_primary(val) == Lower(AsStr(val)) \in {S_yes, S_primary}

\* col.astype(str).str.lower() == 'no', per cell
equals_no(val) == Lower(AsStr(val)) = S_no

\* np.where(flags, 'Available', 'Not Available'), per cell
np_where(flag) == IF flag THEN StrVal(S_Available) ELSE StrVal(S_NotAvailable)

\* set(mapping_df['SVMXC__SM_External_ID__c'].dropna())
valid_products(mapping_df) ==
    { mapping_df.rows[i]["SVMXC__SM_External_ID__c"] : i \in 1..Len(mapping_df.rows) }
        \ {NaN}

\* source_df['Asset#'].isin(valid_products), per cell
isin_valid_products(val, products) == ~IsNa(val) /\ val \in products

\* df[col] = values: the frame with the column added or replaced
WithColumn(df, col, values) ==
    [df EXCEPT !.columns = @ \cup {col},
               !.rows = [i \in 1..Len(df.rows) |->
                           [c \in df.columns \cup {col} |->
                              IF c = col THEN values[i] ELSE df.rows[i][c]]]]

\* flags.sum() / len(df[flags])
CountTrue(flags) == Cardinality({i \in 1..Len(flags) : flags[i]})

\* The four mapping operations leave the template tab alone.
MappingFrame ==
    /\ args' = NoArgs
    /\ ids_before' = <<>>
    /\ written' = -1
    /\ validation' = NoValidation
    /\ UNCHANGED <<template, source_df, summary_sheet>>

\* account_location_mapping(source_file_path, mapping_file_path): the result
\* is the returned boolean; the frame is written back over the source file
account_location_mapping ==
    LET source == mapping_tab.source_file
    IN /\ op' = "account_location_mapping"
       /\ MappingFrame
       /\ IF \/ ~mapping_tab.mapping_file.ok
             \/ ~source.ok
             \/ "Ship_to_check" \notin source.columns
             \/ "Bill_to_check" \notin source.columns
          THEN /\ result' = Returned(FALSE, 0)
               /\ UNCHANGED mapping_tab
          ELSE LET ship == [i \in 1..Len(source.rows) |->
                              np_where(isin_yes_primary(source.rows[i]["Ship_to_check"]))]
                   bill == [i \in 1..Len(source.rows) |->
                              np_where(isin_yes_primary(source.rows[i]["Bill_to_check"]))]
               IN /\ mapping_tab' = [mapping_tab EXCEPT !.source_file =
                        WithColumn(WithColumn(source, "Ship_to_validate", ship),
                                   "Bill_to_validate", bill)]
                  /\ result' = Returned(TRUE, 0)

\* install_product_mapping(source_file_path, mapping_file_path)
install_product_mapping ==
    LET source == mapping_tab.source_file
        mapping_df == mapping_tab.mapping_file
    IN /\ op' = "install_product_mapping"
       /\ MappingFrame
       /\ IF \/ ~mapping_df.ok
             \/ ~source.ok
             \/ "SVMXC__SM_External_ID__c" \notin mapping_df.columns
             \/ "Asset#" \notin source.columns
          THEN /\ result' = Returned(FALSE, 0)
               /\ UNCHANGED mapping_tab
          ELSE LET status == [i \in 1..Len(source.rows) |->
                                np_where(isin_valid_products(source.rows[i]["Asset#"],
                                                             valid_products(mapping_df)))]
               IN /\ mapping_tab' = [mapping_tab EXCEPT !.source_file =
                        WithColumn(source, "Install_Product_Status", status)]
                  /\ result' = Returned(TRUE, 0)

\* location_mapping_validate_fixed(source_path, mapping_file_path): the
\* summary is filled key by key until a statement raises
location_mapping_validate_fixed ==
    LET source == mapping_tab.source_file
        started == [NoLocationSummary EXCEPT !.ran = TRUE]
        failed(summary) == [summary EXCEPT !.message = "Validation error"]
        counted == [started EXCEPT !.source_records = Len(source.rows)]
        bill_to == [i \in 1..Len(source.rows) |-> source.rows[i]["Bill_to_check"]]
        ship_to == [i \in 1..Len(source.rows) |-> source.rows[i]["Ship_to_check"]]
        billed == [counted EXCEPT
                     !.bill_to_valid_count =
                         CountTrue([i \in 1..Len(bill_to) |-> isin_yes_primary(bill_to[i])]),
                     !.bill_to_not_valid_count =
                         CountTrue([i \in 1..Len(bill_to) |-> equals_no(bill_to[i])])]
        shipped == [billed EXCEPT
                     !.ship_to_valid_count =
                         CountTrue([i \in 1..Len(ship_to) |-> isin_yes_primary(ship_to[i])]),
                     !.ship_to_not_valid_count =
                         CountTrue([i \in 1..Len(ship_to) |-> equals_no(ship_to[i])])]
        summary == IF ~mapping_tab.mapping_file.ok \/ ~source.ok THEN failed(started)
                   ELSE IF "Bill_to_check" \notin source.columns THEN failed(counted)
                   ELSE IF "Ship_to_check" \notin source.columns THEN failed(billed)
                   ELSE [shipped EXCEPT !.status = TRUE,
                                        !.message = "Validation completed."]
    IN /\ op' = "location_mapping_validate_fixed"
       /\ MappingFrame
       /\ mapping_tab' = [mapping_tab EXCEPT !.location_summary = summary]
       /\ result' = Returned(summary.status, 0)

\* validate_install_product_mapping(source_path, mapping_file_path)
validate_install_product_mapping ==
    LET source == mapping_tab.source_file
        mapping_df == mapping_tab.mapping_file
        started == [NoInstallSummary EXCEPT !.ran = TRUE]
        failed(summary) == [summary EXCEPT !.message = "Validation error"]
        counted == [started EXCEPT !.source_records = Len(source.rows)]
        matches == [i \in 1..Len(source.rows) |->
                      isin_valid_products(source.rows[i]["Asset#"],
                                          valid_products(mapping_df))]
        summary == IF \/ ~mapping_df.ok
                      \/ ~source.ok
                      \/ "SVMXC__SM_External_ID__c" \notin mapping_df.columns
                   THEN failed(started)
                   ELSE IF "Asset#" \notin source.columns THEN failed(counted)
                   ELSE [counted EXCEPT
                           !.matched_products = CountTrue(matches),
                           !.unmatched_products = Len(source.rows) - CountTrue(matches),
                           !.updated_records = CountTrue(matches),
                           !.status = TRUE,
                           !.message = "Validation completed."]
    IN /\ op' = "validate_install_product_mapping"
       /\ MappingFrame
       /\ mapping_tab' = [mapping_tab EXCEPT !.install_summary = summary]
       /\ result' = Returned(summary.status, 0)

\* ----------------------------------------------------------- mapping inputs
MappingColumns == {"Ship_to_check", "Bill_to_check", "Asset#"}

MappingRow(ship_to, bill_to, asset) ==
    ("Ship_to_check" :> ship_to) @@ ("Bill_to_check" :> bill_to) @@ ("Asset#" :> asset)

\* Rows of an uploaded source file: accepted tokens in any case, 'no', a
\* token that is neither, and empty cells.
MappingSourceRows ==
    { MappingRow(StrVal(S_Yes), StrVal(S_PRIMARY), StrVal(S_A7)),
      MappingRow(StrVal(S_no), StrVal(S_No), StrVal(S_B8)),
      MappingRow(StrVal(S_primary), StrVal(S_no), NaN),
      MappingRow(StrVal(S_maybe), StrVal(S_yes), StrVal(S_A7)),
      MappingRow(NaN, NaN, StrVal(S_B8)) }

\* The uploaded source files: up to MaxRows rows with the three columns, a
\* file without the Bill_to_check column, and a file that is not a workbook.
MappingSourceFiles ==
    { [ok |-> TRUE, columns |-> MappingColumns, rows |-> r] :
        r \in UNION { [1..k -> MappingSourceRows] : k \in 0..MaxRows } }
    \cup { [ok |-> TRUE, columns |-> {"Ship_to_check"},
            rows |-> << ("Ship_to_check" :> StrVal(S_Yes)) >>],
           NoFile }

\* The uploaded mapping files.
MappingFiles ==
    { [ok |-> TRUE, columns |-> {"SVMXC__SM_External_ID__c"},
       rows |-> << ("SVMXC__SM_External_ID__c" :> StrVal(S_A7)),
                   ("SVMXC__SM_External_ID__c" :> NaN) >>],
      [ok |-> TRUE, columns |-> {"Name"}, rows |-> <<>>] }

MappingInit ==
    /\ template = [ok |-> FALSE, headers |-> FullHeaders, data |-> <<>>]
    /\ source_df = FrameOf({"Name"}, <<>>)
    /\ op = "none"
    /\ args = NoArgs
    /\ ids_before = <<>>
    /\ written = -1
    /\ result = Returned(TRUE, 0)
    /\ summary_sheet = NoSummarySheet
    /\ validation = NoValidation
    /\ \E source_file \in MappingSourceFiles, mapping_file \in MappingFiles :
          mapping_tab = [NoMappingRun EXCEPT !.source_file = source_file,
                                             !.mapping_file = mapping_file]

MappingNext ==
    \/ account_location_mapping
    \/ install_product_mapping
    \/ location_mapping_validate_fixed
    \/ validate_install_product_mapping

MappingSpec == MappingInit /\ [][MappingNext]_vars

\* ================================================================= claims
UpdateOps == {"update_template", "update_service_plan", "update_service_offering",
              "update_parts_pricing", "update_labor_pricing"}

Headers == Range(template.headers)
Wrote == op \in UpdateOps /\ written >= 0
SourceLen == Len(source_df.rows)

\* positions of the source records whose flag cell, lower-cased, is 'yes'
Qualifying(flag) ==
    {i \in 1..SourceLen :
        /\ flag \in source_df.columns
        /\ source_df.rows[i][flag].t = "str"
        /\ Lower(source_df.rows[i][flag].s) = S_yes}

\* positions of the source records that are the first with their Name
FirstOfName == {i \in 1..SourceLen :
                   \A j \in 1..(i - 1) : source_df.rows[j]["Name"] # source_df.rows[i]["Name"]}

\* the k-th smallest element of a set of positions
Nth(S, k) == CHOOSE i \in S : Cardinality({j \in S : j <= i}) = k

\* number of blank identifiers among the first i cells of a column
BlanksUpTo(ids, i) == Cardinality({j \in 1..i : IsBlankId(ids[j])})

\* C1: for every synthesizer, when the template has a 'Temp ID' column and the
\* source batch has none, the n records written carry, in output order, the
\* identifiers 5001, 5002, ..., 5000+n.
C1_SequentialIdsWithoutIdColumn ==
    (Wrote /\ "Temp ID" \in Headers /\ "Temp ID" \notin source_df.columns) =>
        \A i \in 1..written : output_df[i]["Temp ID"] = IntVal(5000 + i)

C1_Witness ==
    /\ op = "update_labor_pricing"
    /\ written = 4
    /\ "Temp ID" \in Headers
    /\ "Temp ID" \notin source_df.columns

\* C2: when the source batch has a 'Temp ID' column, the generic and Service
\* Offering synthesizers keep every non-blank source identifier at its
\* position, and the k-th blank position gets 5000+k.
C2_BackfillPreservesSourceIds ==
    (Wrote /\ op \in {"update_template", "update_service_offering"}
           /\ "Temp ID" \in Headers /\ "Temp ID" \in source_df.columns) =>
        LET ids == [i \in 1..SourceLen |-> source_df.rows[i]["Temp ID"]]
        IN \A i \in 1..written :
              output_df[i]["Temp ID"] =
                 IF IsBlankId(ids[i]) THEN IntVal(5000 + BlanksUpTo(ids, i)) ELSE ids[i]

\* C3: after backfill no synthesized identifier equals another identifier of
\* the same output batch, synthesized or preserved.
C3_SynthesizedIdsUnique ==
    (Wrote /\ "Temp ID" \in Headers) =>
        \A i \in 1..written :
           ("Temp ID" \notin source_df.columns \/ IsBlankId(ids_before[i])) =>
              \A j \in (1..written) \ {i} :
                 output_df[j]["Temp ID"] # output_df[i]["Temp ID"]

\* C4: update_service_plan writes one record per distinct Name, the first
\* occurrence in source order, first occurrences in their source order, and
\* reports the number of distinct Names as record_count.
C4_ServicePlanDeduplicates ==
    (op = "update_service_plan" /\ ~result.raised) =>
        /\ written = Cardinality(FirstOfName)
        /\ result.status
        /\ result.record_count =
              Cardinality({source_df.rows[i]["Name"] : i \in 1..SourceLen})
        /\ \A k \in 1..written :
              LET first == source_df.rows[Nth(FirstOfName, k)]
              IN /\ output_df[k]["Name"] = first["Name"]
                 /\ ("Temp ID" \in Headers /\ "Temp ID" \in source_df.columns) =>
                       ids_before[k] = first["Temp ID"]
        /\ ("Temp ID" \in Headers /\ "Temp ID" \notin source_df.columns) =>
              \A k \in 1..written : output_df[k]["Temp ID"] = IntVal(5000 + k)

C4_Witness ==
    /\ op = "update_service_plan"
    /\ SourceLen = 2
    /\ {"Name", "Temp ID"} \subseteq source_df.columns
    /\ source_df.rows[1]["Name"] = source_df.rows[2]["Name"]
    /\ source_df.rows[1]["Temp ID"] # source_df.rows[2]["Temp ID"]
    /\ written = 1

\* the record's Name, lower-cased, contains 'warranty'
NamedWarranty(row) ==
    row["Name"].t = "str" /\ Contains(S_warranty, Lower(row["Name"].s))

\* C5: update_service_plan gives a record the five warranty overrides exactly
\* when its lower-cased Name contains 'warranty'; any other record keeps the
\* configured Service Plan defaults, also when it follows a warranty record
\* (none of the source files carries one of the five override columns itself).
C5_WarrantyOverrides ==
    (op = "update_service_plan" /\ written >= 0) =>
        \A k \in 1..written : \A c \in DOMAIN WarrantyOverrides \cap Headers :
           IF NamedWarranty(output_df[k])
           THEN output_df[k][c] =
                  CASE c = "GS_Rev_Rec_Method__c" -> StrVal(S_Warranty)
                    [] c = "HCS_Related_To__c" -> StrVal(S_Warranty)
                    [] c = "Account_Type__c" -> StrVal(S_Customer)
                    [] c = "Duration_months__c" -> StrVal(S_12)
                    [] OTHER -> StrVal(S_eOMWarrantyStartDate)
           ELSE output_df[k][c] =
                  CASE c = "GS_Rev_Rec_Method__c" -> StrVal(S_StraightLine)
                    [] c = "HCS_Related_To__c" -> StrVal(S_ServiceContract)
                    [] OTHER -> NaN

C5_Witness ==
    /\ op = "update_service_plan"
    /\ written = 2
    /\ NamedWarranty(output_df[1])
    /\ ~NamedWarranty(output_df[2])
    /\ output_df[1]["HCS_Related_To__c"] = StrVal(S_Warranty)
    /\ output_df[2]["HCS_Related_To__c"] = StrVal(S_ServiceContract)

\* C6: update_parts_pricing writes exactly the source records whose 'Need
\* parts pricing' is 'yes' in any letter case, one output record each, in
\* source order, wherever they stand in the source batch.
C6_PartsPricingWritesQualifyingOnly ==
    (op = "update_parts_pricing" /\ written >= 0) =>
        /\ written = Cardinality(Qualifying("Need parts pricing"))
        /\ \A k \in 1..written :
              \A c \in (Headers \cap source_df.columns) \ {"Temp ID"} :
                 output_df[k][c] =
                    source_df.rows[Nth(Qualifying("Need parts pricing"), k)][c]

\* C7: update_labor_pricing writes 2N records for N qualifying source records;
\* records 2i-1 and 2i carry the values of the i-th qualifying record, with
\* Labor_Type__c 'Labor' then 'Travel'.
C7_LaborPricingExpands ==
    (op = "update_labor_pricing" /\ written >= 0) =>
        LET q == Qualifying("Need labor pricing")
        IN /\ written = 2 * Cardinality(q)
           /\ \A i \in 1..Cardinality(q) :
                 /\ output_df[2 * i - 1]["Labor_Type__c"] = StrVal(S_Labor)
                 /\ output_df[2 * i]["Labor_Type__c"] = StrVal(S_Travel)
                 /\ \A r \in {2 * i - 1, 2 * i} :
                       /\ \A c \in (Headers \cap source_df.columns) \ {"Temp ID"} :
                             output_df[r][c] = source_df.rows[Nth(q, i)][c]
                       /\ ("Temp ID" \in Headers /\ "Temp ID" \in source_df.columns) =>
                             ids_before[r] = source_df.rows[Nth(q, i)]["Temp ID"]

C7_Witness ==
    /\ op = "update_labor_pricing"
    /\ written = 2
    /\ SourceLen = 2
    /\ Qualifying("Need labor pricing") = {2}
    /\ source_df.rows[1]["Name"] # source_df.rows[2]["Name"]
    /\ output_df[1]["Name"] = source_df.rows[2]["Name"]

\* C8: when the flag column is there and no source record passes the yes
\* filter, the pricing synthesizers return false, raise nothing and write
\* nothing.
C8_NoQualifyingReturnsFalse ==
    \A flag \in {"Need parts pricing", "Need labor pricing"} :
       ( /\ op = (IF flag = "Need parts pricing" THEN "update_parts_pricing"
                  ELSE "update_labor_pricing")
         /\ flag \in source_df.columns
         /\ Qualifying(flag) = {} ) =>
            /\ ~result.raised
            /\ ~result.status
            /\ written = -1

\* the value of the generic variant's fill order for one cell
GenericExpected(c, i) ==
    LET mapping == ColumnMappingOf(args.template_type)
        ref == args.reference_df
        at(frame, col) == IF i <= Len(frame.rows) THEN frame.rows[i][col] ELSE NaN
    IN IF c \in DOMAIN mapping /\ mapping[c] \in source_df.columns
       THEN at(source_df, mapping[c])
       ELSE IF c \in DOMAIN mapping /\ mapping[c] \in ref.columns THEN at(ref, mapping[c])
       ELSE IF c \in source_df.columns THEN at(source_df, c)
       ELSE IF c \in ref.columns THEN at(ref, c)
       ELSE NaN

\* C9: update_template fills each template column from the mapped source
\* column (source, then reference), else the same-named source column, else
\* the same-named reference column, and then every column with a configured
\* default holds that default in every output row.
C9_GenericFillThenDefaults ==
    (op = "update_template" /\ written >= 0) =>
        \A i \in 1..written : \A c \in Headers \ {"Temp ID"} :
           output_df[i][c] =
              IF c \in DOMAIN DefaultValuesOf(args.template_type)
              THEN DefaultValuesOf(args.template_type)[c]
              ELSE GenericExpected(c, i)

\* C10: in update_service_plan a template column with a per-record default
\* (configured defaults plus warranty overrides) holds that default whatever
\* the source record has in a same-named column; a column without one holds
\* the same-named source value.
C10_ServicePlanDefaultsBeatSource ==
    (op = "update_service_plan" /\ written >= 0) =>
        \A k \in 1..written :
           LET first == source_df.rows[Nth(FirstOfName, k)]
               configured == TEMPLATE_CONFIGS["Service Plan"].default_values
               overridden == IF NamedWarranty(first) THEN DOMAIN WarrantyOverrides ELSE {}
           IN \A c \in Headers \ {"Temp ID"} :
                 output_df[k][c] =
                    IF c \in overridden THEN WarrantyOverrides[c]
                    ELSE IF c \in DOMAIN configured THEN configured[c]
                    ELSE IF c \in source_df.columns THEN first[c]
                    ELSE NaN

C10_Witness ==
    /\ op = "update_service_plan"
    /\ written = 2
    /\ "SVMXC__Active__c" \in source_df.columns
    /\ \A k \in 1..2 :
          /\ source_df.rows[k]["SVMXC__Active__c"] = StrVal(S_FALSE)
          /\ output_df[k]["SVMXC__Active__c"] = StrVal(S_TRUE)
    /\ NamedWarranty(output_df[1]) # NamedWarranty(output_df[2])


\* C11: Service Offering fills a cell from the mapped source column when the
\* batch has it, else from the same-named source column, else from the
\* configured default, else from the same-named reference column, else leaves
\* it empty; a same-named source value therefore beats a configured default.
SO_Mapping == TEMPLATE_CONFIGS["Service Offering"].column_mapping
SO_Defaults == TEMPLATE_CONFIGS["Service Offering"].default_values
SO_Mapped(c) == c \in DOMAIN SO_Mapping /\ SO_Mapping[c] \in source_df.columns
SO_Filled(i, c) == IF c = "Temp ID" THEN ids_before[i] ELSE output_df[i][c]

C11_ServiceOfferingPrecedence ==
    (op = "update_service_offering" /\ ~result.raised /\ Wrote) =>
        \A i \in 1..written : \A c \in Headers :
            /\ SO_Mapped(c) => SO_Filled(i, c) = source_df.rows[i][SO_Mapping[c]]
            /\ (~SO_Mapped(c) /\ c \in source_df.columns) =>
                   SO_Filled(i, c) = source_df.rows[i][c]
            /\ (~SO_Mapped(c) /\ c \notin source_df.columns /\ c \in DOMAIN SO_Defaults) =>
                   SO_Filled(i, c) = SO_Defaults[c]
            /\ (~SO_Mapped(c) /\ c \notin source_df.columns /\ c \notin DOMAIN SO_Defaults) =>
                   IF ~args.reference_df.none /\ c \in args.reference_df.columns
                      /\ i <= Len(args.reference_df.rows)
                   THEN SO_Filled(i, c) = args.reference_df.rows[i][c]
                   ELSE SO_Filled(i, c) = NaN

\* A written Service Offering row whose Billing_Type__c came from the batch
\* although a default is configured, next to a mapped cell, a defaulted cell
\* and a cell taken from the reference frame.
C11_Witness ==
    /\ op = "update_service_offering" /\ ~result.raised /\ written >= 1
    /\ "Billing_Type__c" \in source_df.columns
    /\ output_df[1]["Billing_Type__c"] = StrVal(S_Billable)
    /\ SO_Defaults["Billing_Type__c"] # StrVal(S_Billable)
    /\ ~args.reference_df.none
    /\ output_df[1]["SVMXC__Start_Date__c"] = StrVal(S_2024)


\* ------------------------------------------------- validation run claims
ValidateRan == op = "validate_template_logic" /\ validation.ran /\ template.ok

\* the names the last validation run was asked to scan
Requested ==
    IF args.templates_to_validate.none THEN RuleTypes
    ELSE args.templates_to_validate.names

\* the rows the run scanned, in their scan order (Row_Index is position - 1)
ScannedRows == DropNaAll(template.data)

Found(template_name, row_index, kind) ==
    \E iss \in validation.issues :
        /\ iss.template_name = template_name
        /\ iss.row_index = row_index
        /\ iss.kind = kind

\* C12: over the unique-designated columns that hold data, a scanned row gets
\* the finding 'Duplicate entry Identified' for a template type exactly when
\* another scanned row has the same key tuple; every member of a group of
\* duplicates is flagged, the first one included.
C12_DuplicatesFlagAllMembers ==
    ValidateRan =>
        \A n \in Requested \cap RuleTypes :
            LET keys == {c \in Range(TEMPLATE_VALIDATION_RULES[n].unique) :
                           /\ c \in Headers
                           /\ \E i \in 1..Len(ScannedRows) : ~IsNa(ScannedRows[i][c])}
            IN \A i \in 1..Len(ScannedRows) :
                  Found(n, i - 1, "duplicate")
                    <=> /\ keys # {}
                        /\ \E j \in 1..Len(ScannedRows) :
                              j # i /\ \A c \in keys : ScannedRows[j][c] = ScannedRows[i][c]

\* Two rows with Temp ID 'A7' are both flagged for Service Offering while a
\* row with another Temp ID is not.
C12_Witness ==
    /\ ValidateRan
    /\ "Service Offering" \in Requested
    /\ Len(ScannedRows) >= 3
    /\ ScannedRows[1]["Temp ID"] = StrVal(S_A7)
    /\ ScannedRows[2]["Temp ID"] = StrVal(S_A7)
    /\ Found("Service Offering", 0, "duplicate")
    /\ Found("Service Offering", 1, "duplicate")
    /\ \E i \in 3..Len(ScannedRows) :
          ~IsNa(ScannedRows[i]["Temp ID"]) /\ ~Found("Service Offering", i - 1, "duplicate")


FoundAt(template_name, row_index, kind, column) ==
    \E iss \in validation.issues :
        /\ iss.template_name = template_name
        /\ iss.row_index = row_index
        /\ iss.kind = kind
        /\ iss.column = column

\* the value differs from the expected one after normalization
Differs(val, expected) == normalize_value(val) # normalize_value(expected)

\* C13: the fixed-value check and the source-versus-default check never flag
\* a blank value (null or whitespace-only) and flag any other value exactly
\* when its normalized form (a boolean as its uppercase string, anything
\* else trimmed and uppercased) differs from the normalized expected value.
C13_NormalizedComparison ==
    (ValidateRan /\ ScannedRows # <<>>) =>
        \A n \in Requested \cap RuleTypes :
            /\ n \notin validation.excepted =>
                 \A k \in 1..Len(RuleValues(TEMPLATE_VALIDATION_RULES[n])) :
                    LET col == RuleValues(TEMPLATE_VALIDATION_RULES[n])[k][1]
                        expected == RuleValues(TEMPLATE_VALIDATION_RULES[n])[k][2]
                    IN \A i \in 1..Len(ScannedRows) :
                          FoundAt(n, i - 1, "value", col)
                            <=> /\ ~is_blank(ScannedRows[i][col])
                                /\ Differs(ScannedRows[i][col], expected)
            /\ args.with_source =>
                 \A col \in DOMAIN DefaultValuesOf(n) \cap source_df.columns :
                    \A i \in 1..Len(source_df.rows) :
                       FoundAt(n, i - 1, "source_default", col)
                         <=> /\ ~is_blank(source_df.rows[i][col])
                             /\ Differs(source_df.rows[i][col], DefaultValuesOf(n)[col])


\* the last validation run returned a summary (it did not raise)
ValidateReturned == op = "validate_template_logic" /\ validation.ran /\ ~validation.raised

\* C14: validation_passed of the returned summary is false whenever the run
\* produced a finding of any kind for any requested template type.
C14_FindingsFailValidation ==
    (ValidateReturned /\ validation.issues # {}) => ~validation.validation_passed

\* A run in which no scan raised, findings of two kinds were produced and
\* the returned validation_passed is false.
C14_Witness ==
    /\ ValidateReturned
    /\ validation.excepted = {}
    /\ \E a, b \in validation.issues : a.kind # b.kind
    /\ ~validation.validation_passed


\* C15: when the scan of one requested template type raises, the returned
\* validation_passed is false, and every requested type is still scanned
\* (each adds the scanned rows to total_records).
C15_ScanFaultFailsRun ==
    (ValidateReturned /\ template.ok /\ validation.excepted # {}) =>
        /\ ~validation.validation_passed
        /\ validation.total_records = Cardinality(Requested) * Len(ScannedRows)


\* C16: the rule lookup and the configuration lookup are total: scanning a
\* requested name that has no validation rules raises no fault, and the
\* checks that need no rules still run for it (the Temp ID blank check and,
\* when the batch is passed, the source-versus-default check); update_template
\* does not raise either.
C16_LookupsAreTotal ==
    /\ op = "update_template" => ~result.raised
    /\ (ValidateRan /\ ScannedRows # <<>>) =>
          \A n \in Requested \ RuleTypes :
             /\ n \notin validation.excepted
             /\ "Temp ID" \in Headers =>
                   \A i \in 1..Len(ScannedRows) :
                      is_blank(ScannedRows[i]["Temp ID"])
                         => FoundAt(n, i - 1, "id_blank", "Temp ID")
             /\ args.with_source =>
                   \A col \in DOMAIN DefaultValuesOf(n) \cap source_df.columns :
                      \A i \in 1..Len(source_df.rows) :
                         (~IsNa(source_df.rows[i][col])
                            /\ Differs(source_df.rows[i][col], DefaultValuesOf(n)[col]))
                         => FoundAt(n, i - 1, "source_default", col)


\* C17: after a validation run has returned, the 'Validation_Summary' sheet
\* of the file reflects that run only: a run with findings leaves exactly its
\* own report, and a run without findings leaves no summary sheet, so a
\* summary written by an earlier run never survives a later one.
C17_SummaryReflectsLatestRun ==
    (ValidateReturned /\ template.ok) =>
        IF validation.issues = {}
        THEN ~summary_sheet.present
        ELSE summary_sheet =
                [present |-> TRUE,
                 columns |-> {iss.column : iss \in validation.issues},
                 rows |-> summary_df(template.data, validation.issues)]


\* the row at this position of the sheet is listed in the issue report
InReport(pos) ==
    \E k \in 1..Len(summary_sheet.rows) : summary_sheet.rows[k].Row_Index = pos - 1

\* the findings merged onto the row at this position (its Validation_Summary)
SummaryOf(pos) == {iss \in validation.issues : iss.row_index = pos - 1}

\* C18: the issue report lists a row of the sheet exactly when the row has a
\* finding (a non-empty summary) and its Temp ID is not blank (null or
\* whitespace-only); duplicate_temp_id_count and default_mismatch_count count
\* the report rows whose summary holds the marker phrase.
C18_ReportRows ==
    (ValidateReturned /\ template.ok /\ validation.issues # {}) =>
        /\ \A pos \in 1..Len(template.data) :
              InReport(pos) <=> /\ SummaryOf(pos) # {}
                                /\ ~is_blank(template.data[pos]["Temp ID"])
        /\ validation.duplicate_temp_id_count =
              Cardinality({pos \in 1..Len(template.data) :
                             InReport(pos)
                               /\ \E iss \in SummaryOf(pos) : iss.kind = "duplicate"})
        /\ validation.default_mismatch_count =
              Cardinality({pos \in 1..Len(template.data) :
                             InReport(pos)
                               /\ \E iss \in SummaryOf(pos) :
                                     iss.kind \in {"source_default", "value"}})


\* C19: no operation lets a fault escape to its caller, except
\* update_service_plan called with a batch that has no 'Name' column: a
\* missing flag column in the pricing variants, a template that cannot be
\* opened and a sheet without a 'Temp ID' column in the summary step of the
\* validation all end in a returned result.
C19_FaultsAreReturned ==
    result.raised => (op = "update_service_plan" /\ "Name" \notin source_df.columns)


\* ------------------------------------------------------- picklist claims
\* the entries of picklist_values that name this column with a non-empty value
Applying(picklist_values, col) ==
    {k \in 1..Len(picklist_values) :
        /\ picklist_values[k][1] = col
        /\ picklist_values[k][2].t = "str"
        /\ picklist_values[k][2].s # <<>>}

\* C20: update_template_with_picklist sets every data-row cell of a column
\* named by an entry with a non-empty value to that value, leaves every other
\* cell and the header row unchanged (entries with an empty value or for a
\* column the sheet lacks change nothing), and returns false instead of
\* raising when the file cannot be opened.
C20_PicklistFrame ==
    [][op' = "update_template_with_picklist" =>
         /\ ~result'.raised
         /\ template'.headers = template.headers
         /\ Len(template'.data) = Len(template.data)
         /\ result'.status = template.ok
         /\ ~template.ok => template' = template
         /\ template.ok =>
              \A i \in 1..Len(template.data) : \A c \in Range(template.headers) :
                 LET hits == Applying(args'.picklist_values, c)
                 IN IF hits = {}
                    THEN template'.data[i][c] = template.data[i][c]
                    ELSE \A k \in hits :
                            template'.data[i][c] = args'.picklist_values[k][2]]_vars

\* The three-entry picklist was applied to the sheet with rule violations:
\* every SVMXC__Active__c cell is 'TRUE' while the Billing_Type__c cells, named
\* by the entry with the empty value, are as they were.
C20_Witness ==
    /\ op = "update_template_with_picklist"
    /\ result.status
    /\ Len(args.picklist_values) = 3
    /\ Len(template.data) = Len(DirtyRows)
    /\ \A i \in 1..Len(template.data) :
          /\ template.data[i]["SVMXC__Active__c"] = StrVal(S_TRUE)
          /\ template.data[i]["Billing_Type__c"]
                = RowOf(FullHeaders, DirtyRows[i])["Billing_Type__c"]
    /\ template.data[1]["Billing_Type__c"] = StrVal(S_NonBillable)

\* number of source rows an updater tagged with the given word in a column
Tagged(col, word) ==
    Cardinality({i \in 1..Len(mapping_tab.source_file.rows) :
                    mapping_tab.source_file.rows[i][col] = StrVal(word)})

\* a validator returned its summary with status True
LocationValidated == mapping_tab.location_summary.ran /\ mapping_tab.location_summary.status
InstallValidated == mapping_tab.install_summary.ran /\ mapping_tab.install_summary.status

\* C21: the read-only mapping validators count what the mapping updaters
\* tag: on the same source file the validator's valid count is the number of
\* rows the updater tags 'Available' and its not-valid count is the number
\* of rows the updater tags 'Not Available', for Ship_to_check and
\* Bill_to_check; for install products matched and unmatched are the
\* numbers of rows tagged 'Available' and 'Not Available' and add up to the
\* source record count.
C21_ValidatorsCountWhatUpdatersTag ==
    /\ (LocationValidated /\ "Ship_to_validate" \in mapping_tab.source_file.columns) =>
          /\ mapping_tab.location_summary.ship_to_valid_count
                = Tagged("Ship_to_validate", S_Available)
          /\ mapping_tab.location_summary.ship_to_not_valid_count
                = Tagged("Ship_to_validate", S_NotAvailable)
          /\ mapping_tab.location_summary.bill_to_valid_count
                = Tagged("Bill_to_validate", S_Available)
          /\ mapping_tab.location_summary.bill_to_not_valid_count
                = Tagged("Bill_to_validate", S_NotAvailable)
    /\ (InstallValidated /\ "Install_Product_Status" \in mapping_tab.source_file.columns) =>
          /\ mapping_tab.install_summary.matched_products
                = Tagged("Install_Product_Status", S_Available)
          /\ mapping_tab.install_summary.unmatched_products
                = Tagged("Install_Product_Status", S_NotAvailable)
          /\ mapping_tab.install_summary.matched_products
                + mapping_tab.install_summary.unmatched_products
                = mapping_tab.install_summary.source_records

\* ------------------------------------------------------ population frame
\* the step is a population that wrote the template
Populates == op' \in UpdateOps /\ written' >= 0

\* the step is a validation run that could open the template
Validates == op' = "validate_template_logic" /\ template.ok

\* C22: a population writes its n output records into data rows 1..n (the
\* rows directly under the header row) and leaves the header row and the
\* data rows beyond position n as they were, so the data region afterwards
\* has the larger of n and its earlier number of rows and every written row
\* carries an identifier; a validation run scans every non-empty row of the
\* data region, older trailing rows included.
C22_PopulationFrame ==
    [][ /\ Populates =>
            /\ template'.ok = template.ok
            /\ template'.headers = template.headers
            /\ Len(template'.data) =
                  IF Len(template.data) > written' THEN Len(template.data) ELSE written'
            /\ \A i \in (written' + 1)..Len(template.data) :
                  template'.data[i] = template.data[i]
            /\ "Temp ID" \in Range(template.headers) =>
                  \A i \in 1..written' : ~IsBlankId(template'.data[i]["Temp ID"])
        /\ Validates =>
            /\ template' = template
            /\ validation'.total_records
                  = Cardinality(Requested') * Len(DropNaAll(template.data))
      ]_vars

\* A validation run on a sheet whose first two rows were populated over five
\* earlier rows: the three older rows are still there, all five are scanned
\* and an older row has a finding.
C22_Witness ==
    /\ ValidateRan
    /\ template.headers = FullHeaders
    /\ Len(template.data) = 5
    /\ template.data[1]["Temp ID"] = IntVal(5001)
    /\ template.data[2]["Temp ID"] = IntVal(5002)
    /\ \A i \in 3..5 : template.data[i] = SheetOf(FullHeaders, DirtyRows).data[i]
    /\ validation.total_records = Cardinality(Requested) * 5
    /\ \E iss \in validation.issues : iss.row_index >= 2

\* -------------------------------------------------- populate then validate
\* the template type the last population filled the sheet for
PopulatedType ==
    CASE op = "update_template" -> args.template_type
      [] op = "update_service_offering" -> "Service Offering"
      [] OTHER -> ""

\* row i of the last population got its identifier from the backfill
Synthesized(i) ==
    /\ "Temp ID" \in Range(template.headers)
    /\ i \in 1..written
    /\ \/ "Temp ID" \notin source_df.columns
       \/ i <= Len(ids_before) /\ IsBlankId(ids_before[i])

\* C23: when a population for 'Service Contract DLT' or 'Service Offering'
\* is followed by a validation run that scans that template type, every row
\* whose identifier the backfill synthesized gets the finding 'Temp ID
\* should be str', and validation_passed is false if there is such a row.
C23_SynthesizedIdsFailTypeRule ==
    [][ ( /\ PopulatedType \in {"Service Contract DLT", "Service Offering"}
          /\ written >= 1
          /\ op' = "validate_template_logic"
          /\ PopulatedType \in Requested' ) =>
            /\ \A i \in 1..written : Synthesized(i) =>
                  \E iss \in validation'.issues :
                      /\ iss.template_name = PopulatedType
                      /\ iss.row_index = i - 1
                      /\ iss.kind = "type"
                      /\ iss.column = "Temp ID"
            /\ (\E i \in 1..written : Synthesized(i)) => ~validation'.validation_passed
      ]_vars

\* A validation run of 'Service Offering' over a sheet whose first two rows
\* carry the synthesized identifiers 5001 and 5002: both rows have the type
\* finding and the run did not pass.
C23_Witness ==
    /\ ValidateRan
    /\ "Service Offering" \in Requested
    /\ "Temp ID" \in Range(template.headers)
    /\ Len(template.data) >= 2
    /\ template.data[1]["Temp ID"] = IntVal(5001)
    /\ template.data[2]["Temp ID"] = IntVal(5002)
    /\ FoundAt("Service Offering", 0, "type", "Temp ID")
    /\ FoundAt("Service Offering", 1, "type", "Temp ID")
    /\ ~validation.validation_passed

====
